---- MODULE Spec2Model ----
(***************************************************************************)
(* Okta Suspend User action: the invoke handler in its two flow variants   *)
(*   check-then-suspend  (src/src/script.mjs)                              *)
(*   suspend-then-check  (src/unnamed/part_000)                            *)
(* An invocation is a sequence of steps separated by its awaited fetch     *)
(* calls.  Strings that the code builds by concatenation are sequences of  *)
(* string pieces, so that "contains" and "starts with" can be evaluated.   *)
(***************************************************************************)
EXTENDS Integers, Sequences, FiniteSets, TLC

VARIABLES
  variant,      \* which script is deployed
  account,      \* the directory: identifier -> lifecycle status
  pc,           \* per invocation: where the async invoke function stands
  input,        \* per invocation: params and context it was called with
  requests,     \* per invocation: the fetch calls issued, in order
  responses,    \* per invocation: the responses received, in order
  outcome,      \* per invocation: pending, the returned result, or the thrown error
  startedAfter, \* per invocation: the invocations that had ended when it started
  recovery,     \* the call of the error handler: its params, fetch calls, sleeps, outcome
  halted,       \* the call of the halt handler: its params, fetch calls, outcome
  log           \* per invocation: the lines written by console.log and console.error

vars ==
  <<variant, account, pc, input, requests, responses, outcome, startedAfter,
    recovery, halted, log>>

(***************************************************************************)
(* Bounds                                                                  *)
(***************************************************************************)
NumInvocations == 2

Procs == 1..NumInvocations

(***************************************************************************)
(* JavaScript values                                                       *)
(***************************************************************************)
Undefined == "undefined"
Null == "null"

\* what `x || y` tests: undefined, null and the empty string are falsy
Falsy(v) == v \in {Undefined, Null, ""}

OrElse(v, w) == IF Falsy(v) THEN w ELSE v

\* new Date().toISOString()
Now == "<now>"

CheckThenSuspend == "check-then-suspend"
SuspendThenCheck == "suspend-then-check"
Variants == {CheckThenSuspend, SuspendThenCheck}

USER_STATUS == [ACTIVE |-> "ACTIVE", SUSPENDED |-> "SUSPENDED"]

(***************************************************************************)
(* Inputs of an invocation                                                 *)
(***************************************************************************)
\* identifiers, as sequences of characters
UserIds == { <<"u", "1">>, <<"a", "@", "b", "/", ".", ".">> }

AddressConfigs ==
  { [address |-> Undefined, ADDRESS |-> Undefined],
    [address |-> "https://example.okta.com", ADDRESS |-> Undefined],
    [address |-> Undefined, ADDRESS |-> "https://env.okta.com"] }

\* context.secrets: at most one authentication method is configured
Secrets ==
  { [mode |-> "none", token |-> <<>>],
    [mode |-> "BEARER_AUTH_TOKEN", token |-> <<"tok">>],
    [mode |-> "BEARER_AUTH_TOKEN", token |-> <<"SSWS ", "tok">>],
    [mode |-> "BASIC", token |-> <<"dXNlcjpwdw==">>],
    [mode |-> "OAUTH2", token |-> <<"access">>] }

\* params.userId empty ('') and missing (undefined, which a template and
\* encodeURIComponent turn into the text "undefined")
InvalidUserIds == { <<>>, <<Undefined>> }

Inputs ==
  { [userId |-> u, addr |-> a, secrets |-> s] :
      u \in UserIds \cup InvalidUserIds, a \in AddressConfigs, s \in Secrets }

\* the inputs of the invocations that run against the directory: every identifier,
\* with and without a credential
DirInputs ==
  { in \in Inputs : /\ in.userId \in UserIds
                    /\ in.addr.address # Undefined
                    /\ in.secrets.token \in {<<>>, <<"tok">>} /\ in.secrets.mode # "OAUTH2" }

(***************************************************************************)
(* HTTP responses                                                          *)
(***************************************************************************)
HttpStatuses == {200, 204, 400, 404, 429}

StatusValues == {"ACTIVE", "SUSPENDED", "DEPROVISIONED", Undefined}

Timestamps ==
  { [statusChanged |-> "2024-01-15T10:30:00.000Z", lastUpdated |-> Undefined],
    [statusChanged |-> Null, lastUpdated |-> "2024-02-01T00:00:00.000Z"],
    [statusChanged |-> Null, lastUpdated |-> Undefined] }

\* a body is: not JSON ("invalid"), the JSON literal null, or a JSON object
Body(kind, status, ts, summary) ==
  [kind |-> kind, status |-> status, statusChanged |-> ts.statusChanged,
   lastUpdated |-> ts.lastUpdated, errorSummary |-> summary]

NoTimestamps == [statusChanged |-> Undefined, lastUpdated |-> Undefined]

InvalidBody == Body("invalid", Undefined, NoTimestamps, Undefined)
NullBody == Body("null", Undefined, NoTimestamps, Undefined)

UserBodies == { Body("object", s, t, Undefined) : s \in StatusValues, t \in Timestamps }

ErrorBodies == { Body("object", Undefined, NoTimestamps, e) : e \in {"", "Not found"} }

Bodies == {InvalidBody, NullBody} \cup UserBodies \cup ErrorBodies

Responses == [status : HttpStatuses, body : Bodies]

\* Response.ok of fetch: the status is in the range 200-299
Ok(resp) == resp.status >= 200 /\ resp.status <= 299

\* response.json() rejects
JsonThrows(resp) == resp.body.kind = "invalid"

(***************************************************************************)
(* Helpers of the scripts                                                  *)
(***************************************************************************)
\* encodeURIComponent on one character: everything but A-Z a-z 0-9 - _ . ! ~ * ' ( )
\* is percent-encoded
\* variation: the path separator left as it is
EncodeChar_SlashKept(c) ==
  CASE c = "@" -> "%40"
    [] c = " " -> "%20"
    [] c = "?" -> "%3F"
    [] c = "#" -> "%23"
    [] OTHER -> c

EncodeChar(c) ==
  CASE c = "@" -> "%40"
    [] c = "/" -> "%2F"
    [] c = " " -> "%20"
    [] c = "?" -> "%3F"
    [] c = "#" -> "%23"
    [] OTHER -> c

encodeURIComponent(str) == [i \in 1..Len(str) |-> EncodeChar(str[i])]

\* getBaseURL(params, context): the address parameter, else the ADDRESS environment
\* variable; it throws when neither is given
BaseURLGiven(in) == ~Falsy(in.addr.address) \/ ~Falsy(in.addr.ADDRESS)

getBaseURL(in) == OrElse(in.addr.address, in.addr.ADDRESS)

NoURLError ==
  [name |-> "Error",
   message |-> <<"No URL specified. Provide address parameter or ADDRESS environment variable">>]

\* getAuthorizationHeader(context): it throws when no method is configured
AuthConfigured(in) == in.secrets.mode # "none"

getAuthorizationHeader(in) ==
  CASE in.secrets.mode = "BEARER_AUTH_TOKEN" -> <<"Bearer ">> \o in.secrets.token
    [] in.secrets.mode = "BASIC" -> <<"Basic ">> \o in.secrets.token
    [] in.secrets.mode = "OAUTH2" -> <<"Bearer ">> \o in.secrets.token
    [] OTHER -> <<>>

NoAuthError == [name |-> "Error", message |-> <<"No authentication configured">>]

\* variation: every Bearer header rewritten, whatever the auth mode
authHeader_AnyBearer(in) ==
  LET header == getAuthorizationHeader(in) IN
    IF header # <<>> /\ header[1] = "Bearer "
    THEN LET token == Tail(header) IN
           IF token # <<>> /\ token[1] = "SSWS " THEN token ELSE <<"SSWS ">> \o token
    ELSE header

\* Okta's SSWS token format, only for the Bearer token auth mode
authHeader(in) ==
  LET header == getAuthorizationHeader(in) IN
    IF in.secrets.mode = "BEARER_AUTH_TOKEN" /\ header # <<>> /\ header[1] = "Bearer "
    THEN LET token == Tail(header) IN
           IF token # <<>> /\ token[1] = "SSWS " THEN token ELSE <<"SSWS ">> \o token
    ELSE header

\* the fetch call of getUser
\* variation: the GET sent with the headers of the POST
getUser_WithContentType(in) ==
  [method |-> "GET",
   base |-> getBaseURL(in),
   path |-> <<"/", "api", "/", "v1", "/", "users", "/">> \o encodeURIComponent(in.userId),
   headers |-> [Authorization |-> authHeader(in), Accept |-> "application/json",
                ContentType |-> "application/json"]]

getUser(in) ==
  [method |-> "GET",
   base |-> getBaseURL(in),
   path |-> <<"/", "api", "/", "v1", "/", "users", "/">> \o encodeURIComponent(in.userId),
   headers |-> [Authorization |-> authHeader(in), Accept |-> "application/json"]]

\* variation: the suspend call made with the method of the read
suspendUser_MethodGet(in) ==
  [method |-> "GET",
   base |-> getBaseURL(in),
   path |-> <<"/", "api", "/", "v1", "/", "users", "/">> \o encodeURIComponent(in.userId)
              \o <<"/", "lifecycle", "/", "suspend">>,
   headers |-> [Authorization |-> authHeader(in), Accept |-> "application/json",
                ContentType |-> "application/json"]]

\* the fetch call of suspendUser
suspendUser(in) ==
  [method |-> "POST",
   base |-> getBaseURL(in),
   path |-> <<"/", "api", "/", "v1", "/", "users", "/">> \o encodeURIComponent(in.userId)
              \o <<"/", "lifecycle", "/", "suspend">>,
   headers |-> [Authorization |-> authHeader(in), Accept |-> "application/json",
                ContentType |-> "application/json"]]

createError(message, statusCode) ==
  [name |-> "Error", message |-> message, statusCode |-> statusCode]

\* reading a property of the JSON value null
NullTypeError(prop) ==
  [name |-> "TypeError",
   message |-> <<"Cannot read properties of null (reading '", prop, "')">>]

Pending == [kind |-> "pending"]
Returned(r) == [kind |-> "returned", value |-> r]
Thrown(e) == [kind |-> "thrown", error |-> e]

(***************************************************************************)
(* Steps of an invocation                                                  *)
(***************************************************************************)
\* the invocation awaits the response to a further fetch call
Await(p, label, req) ==
  /\ pc' = [pc EXCEPT ![p] = label]
  /\ requests' = [requests EXCEPT ![p] = Append(@, req)]
  /\ UNCHANGED outcome

\* variation: the result waits on a promise that never settles
Return_NeverSettles(p, r) ==
  /\ pc' = [pc EXCEPT ![p] = "hung"]
  /\ UNCHANGED <<outcome, requests>>

Return(p, r) ==
  /\ pc' = [pc EXCEPT ![p] = "returned"]
  /\ outcome' = [outcome EXCEPT ![p] = Returned(r)]
  /\ UNCHANGED requests

Throw(p, e) ==
  /\ pc' = [pc EXCEPT ![p] = "thrown"]
  /\ outcome' = [outcome EXCEPT ![p] = Thrown(e)]
  /\ UNCHANGED requests

Receive(p, resp) == responses' = [responses EXCEPT ![p] = Append(@, resp)]

Ended(p) == pc[p] \in {"returned", "thrown"}

\* invoke up to its first fetch call: the same lines in both scripts
\* variation: the start line names the credential in use
StartLog_WithCredential(in) ==
  << <<"Starting Okta user suspension for user: ">> \o in.userId
       \o <<" with ">> \o getAuthorizationHeader(in) >>

\* console.log(`Starting Okta user suspension for user: ${userId}`)
StartLog(in) == << <<"Starting Okta user suspension for user: ">> \o in.userId >>

\* variation: the result of an earlier invocation for the same user is reused
Start_Cached(p, in, label, req) ==
  /\ pc[p] = "idle"
  /\ input' = [input EXCEPT ![p] = in]
  /\ startedAfter' = [startedAfter EXCEPT ![p] = {q \in Procs : Ended(q)}]
  /\ IF ~BaseURLGiven(in) THEN Throw(p, NoURLError)
     ELSE IF ~AuthConfigured(in) THEN Throw(p, NoAuthError)
     ELSE IF \E q \in Procs : outcome[q].kind = "returned" /\ input[q].userId = in.userId
          THEN Return(p, outcome[CHOOSE q \in Procs :
                                   /\ outcome[q].kind = "returned"
                                   /\ input[q].userId = in.userId].value)
     ELSE Await(p, label, req)
  /\ log' = [log EXCEPT ![p] = StartLog(in)]
  /\ UNCHANGED <<variant, account, responses, recovery, halted>>

\* variation: the first request goes out before the credential is resolved
Start_NoAuthCheck(p, in, label, req) ==
  /\ pc[p] = "idle"
  /\ input' = [input EXCEPT ![p] = in]
  /\ startedAfter' = [startedAfter EXCEPT ![p] = {q \in Procs : Ended(q)}]
  /\ IF ~BaseURLGiven(in) THEN Throw(p, NoURLError)
     ELSE IF ~AuthConfigured(in)
          THEN /\ pc' = [pc EXCEPT ![p] = "thrown"]
               /\ outcome' = [outcome EXCEPT ![p] = Thrown(NoAuthError)]
               /\ requests' = [requests EXCEPT ![p] = Append(@, req)]
     ELSE Await(p, label, req)
  /\ log' = [log EXCEPT ![p] = StartLog(in)]
  /\ UNCHANGED <<variant, account, responses, recovery, halted>>

Start(p, in, label, req) ==
  /\ pc[p] = "idle"
  /\ input' = [input EXCEPT ![p] = in]
  /\ startedAfter' = [startedAfter EXCEPT ![p] = {q \in Procs : Ended(q)}]
  /\ IF ~BaseURLGiven(in) THEN Throw(p, NoURLError)
     ELSE IF ~AuthConfigured(in) THEN Throw(p, NoAuthError)
     ELSE Await(p, label, req)
  /\ log' = [log EXCEPT ![p] = StartLog(in)]
  /\ UNCHANGED <<variant, account, responses, recovery, halted>>

(***************************************************************************)
(* check-then-suspend: src/src/script.mjs                                  *)
(***************************************************************************)
\* mutant: the status of the response is replaced by a fixed one
FetchError_Fixed500(resp) ==
  createError(<<"Cannot fetch information about User: HTTP ", ToString(resp.status)>>, 500)

FetchError(resp) ==
  createError(<<"Cannot fetch information about User: HTTP ", ToString(resp.status)>>,
              resp.status)

\* mutant: a parse failure reported as a bad request
ParseError_BadRequest == createError(<<"Cannot parse user data: ", "Invalid JSON">>, 400)

ParseError == createError(<<"Cannot parse user data: ", "Invalid JSON">>, 500)

\* mutant: the short-circuit tests for the wrong status
AlreadySuspended_WrongStatus(userData) == userData.status = USER_STATUS.ACTIVE

AlreadySuspended(userData) == userData.status = USER_STATUS.SUSPENDED

\* mutant: the test is inverted
IsActive_Inverted(userData) == userData.status # USER_STATUS.ACTIVE

\* mutant: the test is dropped
IsActive_Always(userData) == TRUE

IsActive(userData) == userData.status = USER_STATUS.ACTIVE

AlreadySuspendedResult(in, userData) ==
  [userId |-> in.userId, suspended |-> TRUE, address |-> getBaseURL(in),
   suspendedAt |-> OrElse(userData.statusChanged, Now), status |-> userData.status]

\* mutant: the wrong status code
NotActiveError_ServerError(userData) ==
  createError(<<"User must have an ACTIVE status to be suspended. User is ",
                userData.status>>, 500)

NotActiveError(userData) ==
  createError(<<"User must have an ACTIVE status to be suspended. User is ",
                userData.status>>, 400)

\* the message of a failed suspend call: the body's errorSummary when the body is
\* JSON with a truthy errorSummary, "HTTP <status>" otherwise
\* mutant: the errorSummary of the body is ignored
SuspendErrorMessage_NoSummary(resp) ==
  <<"Failed to suspend user: HTTP ", ToString(resp.status)>>

SuspendErrorMessage(resp) ==
  IF resp.body.kind = "object" /\ ~Falsy(resp.body.errorSummary)
  THEN <<"Failed to suspend user: ", resp.body.errorSummary>>
  ELSE <<"Failed to suspend user: HTTP ", ToString(resp.status)>>

\* variation: every failure of the suspend call reported as a server error
SuspendError_Fixed500(resp) == createError(SuspendErrorMessage(resp), 500)

SuspendError(resp) == createError(SuspendErrorMessage(resp), resp.status)

\* variation: the status of the decoded body, with no default
SuspendedResult_NoDefault(in, suspendedUserData) ==
  [userId |-> in.userId, suspended |-> TRUE, address |-> getBaseURL(in),
   suspendedAt |-> Now, status |-> suspendedUserData.status]

SuspendedResult(in, suspendedUserData) ==
  [userId |-> in.userId, suspended |-> TRUE, address |-> getBaseURL(in),
   suspendedAt |-> Now,
   status |-> OrElse(suspendedUserData.status, USER_STATUS.SUSPENDED)]

InvokeA(p, in) ==
  /\ variant = CheckThenSuspend
  /\ Start(p, in, "getUser", getUser(in))

\* the lines console.error writes while the answer to the GET is handled
GetUserLogA(in, resp) ==
  IF ~Ok(resp) THEN <<FetchError(resp).message>>
  ELSE IF JsonThrows(resp) THEN <<ParseError.message>>
  ELSE IF resp.body.kind = "null" THEN <<>>
  ELSE IF AlreadySuspended(resp.body) THEN <<>>
  ELSE IF ~IsActive(resp.body) THEN <<NotActiveError(resp.body).message>>
  ELSE <<>>

\* the lines written in the try/catch around the error body of a failed suspend call
SuspendErrorLog(resp) ==
  IF resp.body.kind = "object"
  THEN << <<"Okta API error response:", ToString(resp.body)>> >>
  ELSE << <<"Failed to parse error response">> >>

\* the lines written while the answer to the POST is handled
SuspendUserLogA(in, resp) ==
  IF ~Ok(resp) THEN SuspendErrorLog(resp)
  ELSE << <<"Successfully suspended user ">> \o in.userId >>

GetUserRespondedA(p, resp) ==
  /\ variant = CheckThenSuspend
  /\ pc[p] = "getUser"
  /\ Receive(p, resp)
  /\ IF ~Ok(resp) THEN Throw(p, FetchError(resp))
     ELSE IF JsonThrows(resp) THEN Throw(p, ParseError)
     ELSE IF resp.body.kind = "null" THEN Throw(p, NullTypeError("status"))
     ELSE IF AlreadySuspended(resp.body)
          THEN Return(p, AlreadySuspendedResult(input[p], resp.body))
     ELSE IF ~IsActive(resp.body) THEN Throw(p, NotActiveError(resp.body))
     ELSE Await(p, "suspendUser", suspendUser(input[p]))
  /\ log' = [log EXCEPT ![p] = @ \o GetUserLogA(input[p], resp)]
  /\ UNCHANGED <<variant, input, startedAfter, recovery, halted>>

SuspendUserRespondedA(p, resp) ==
  /\ variant = CheckThenSuspend
  /\ pc[p] = "suspendUser"
  /\ Receive(p, resp)
  /\ IF ~Ok(resp) THEN Throw(p, SuspendError(resp))
     ELSE IF JsonThrows(resp)
          THEN Return(p, SuspendedResult(input[p], [status |-> Undefined]))
     ELSE IF resp.body.kind = "null" THEN Throw(p, NullTypeError("status"))
     ELSE Return(p, SuspendedResult(input[p], resp.body))
  /\ log' = [log EXCEPT ![p] = @ \o SuspendUserLogA(input[p], resp)]
  /\ UNCHANGED <<variant, input, startedAfter, recovery, halted>>

(***************************************************************************)
(* suspend-then-check: src/unnamed/part_000                                *)
(***************************************************************************)
\* a failed suspend call is raised at once unless its status is 400
\* mutant: 400 is raised like any other failure
SuspendFailed_Strict(resp) == ~Ok(resp)

\* variation: no failure of the suspend call is raised
SuspendFailed_Never(resp) == FALSE

SuspendFailed(resp) == ~Ok(resp) /\ resp.status # 400

\* variation: the verification compares with the wrong status
NotSuspended_ComparesActive(userData) == userData.status # USER_STATUS.ACTIVE

NotSuspended(userData) == userData.status # USER_STATUS.SUSPENDED

CouldNotSuspendError(in, userData) ==
  createError(<<"User ">> \o in.userId
                \o <<" could not be suspended. User is currently ", userData.status>>,
              400)

VerifiedResult(in, userData) ==
  [userId |-> in.userId, suspended |-> TRUE, address |-> getBaseURL(in),
   suspendedAt |-> OrElse(userData.statusChanged, userData.lastUpdated),
   status |-> userData.status]

InvokeB(p, in) ==
  /\ variant = SuspendThenCheck
  /\ Start(p, in, "suspendUser", suspendUser(in))

\* the lines written while the answer to the POST is handled
SuspendUserLogB(in, resp) ==
  << <<"Receieved a ", ToString(resp.status), " from Okta when suspending user ">>
       \o in.userId >>
  \o (IF SuspendFailed(resp) THEN SuspendErrorLog(resp) ELSE <<>>)

\* the lines written while the answer to the GET is handled
GetUserLogB(in, resp) ==
  IF ~Ok(resp) THEN <<FetchError(resp).message>>
  ELSE IF JsonThrows(resp) THEN <<ParseError.message>>
  ELSE IF resp.body.kind = "null" THEN <<>>
  ELSE IF NotSuspended(resp.body) THEN <<CouldNotSuspendError(in, resp.body).message>>
  ELSE << <<"Fetched user info. User ">> \o in.userId \o <<" is currently SUSPENDED">> >>

SuspendUserRespondedB(p, resp) ==
  /\ variant = SuspendThenCheck
  /\ pc[p] = "suspendUser"
  /\ Receive(p, resp)
  /\ IF SuspendFailed(resp) THEN Throw(p, SuspendError(resp))
     ELSE Await(p, "getUser", getUser(input[p]))
  /\ log' = [log EXCEPT ![p] = @ \o SuspendUserLogB(input[p], resp)]
  /\ UNCHANGED <<variant, input, startedAfter, recovery, halted>>

GetUserRespondedB(p, resp) ==
  /\ variant = SuspendThenCheck
  /\ pc[p] = "getUser"
  /\ Receive(p, resp)
  /\ IF ~Ok(resp) THEN Throw(p, FetchError(resp))
     ELSE IF JsonThrows(resp) THEN Throw(p, ParseError)
     ELSE IF resp.body.kind = "null" THEN Throw(p, NullTypeError("status"))
     ELSE IF NotSuspended(resp.body)
          THEN Throw(p, CouldNotSuspendError(input[p], resp.body))
     ELSE Return(p, VerifiedResult(input[p], resp.body))
  /\ log' = [log EXCEPT ![p] = @ \o GetUserLogB(input[p], resp)]
  /\ UNCHANGED <<variant, input, startedAfter, recovery, halted>>

(***************************************************************************)
(* The error and halt handlers: the same lines in both scripts             *)
(***************************************************************************)
\* the errors the framework reports to the error handler
ReportedErrors ==
  { createError(<<"Failed to suspend user: HTTP 429">>, 429),
    createError(<<"Bad gateway">>, 502),
    createError(<<"Service temporarily unavailable">>, 503),
    createError(<<"Gateway timeout">>, 504),
    createError(<<"Unauthorized: Invalid API token">>, 401) }

NoCall == [pc |-> "idle"]

\* variation: a retry loop that suspends twice
ErrorRequests_Twice(params) == <<[method |-> "POST"], [method |-> "POST"]>>

\* the error handler makes no fetch call
ErrorRequests(params) == <<>>

\* the error handler sets no timer
ErrorSleeps(params) == <<>>

\* variation: the error wrapped in a new one
ErrorThrown_Wrapped(params) ==
  [name |-> "Error",
   message |-> <<"Unrecoverable error suspending user ">> \o params.userId
                 \o <<": ">> \o params.error.message]

\* throw error
ErrorThrown(params) == params.error

\* console.error(`User suspension failed for user ${userId}: ${error.message}`)
ErrorLog(params) ==
  << <<"User suspension failed for user ">> \o params.userId \o <<": ">>
       \o params.error.message >>

\* error(params, context): logs, then re-throws the error it was given
ErrorHandler(params) ==
  /\ recovery = NoCall
  /\ recovery' = [pc |-> "thrown", params |-> params, log |-> ErrorLog(params),
                  requests |-> ErrorRequests(params), slept |-> ErrorSleeps(params),
                  outcome |-> Thrown(ErrorThrown(params))]
  /\ UNCHANGED <<variant, account, pc, input, requests, responses, outcome,
                 startedAfter, halted, log>>

\* variation: the userId as given, with no default
UserIdOrUnknown_AsGiven(userId) == userId

\* userId || 'unknown'
UserIdOrUnknown(userId) == IF userId \in {<<>>, <<Undefined>>} THEN <<"unknown">> ELSE userId

HaltResult(params) ==
  [userId |-> UserIdOrUnknown(params.userId), reason |-> params.reason,
   haltedAt |-> Now, cleanupCompleted |-> TRUE]

\* console.log(`User suspension job is being halted (${reason}) for user ${userId}`)
HaltLog(params) ==
  << <<"User suspension job is being halted (", params.reason, ") for user ">>
       \o params.userId >>

\* halt(params, context): logs, then returns; no fetch call, nothing to undo
HaltHandler(params) ==
  /\ halted = NoCall
  /\ halted' = [pc |-> "returned", params |-> params, requests |-> <<>>,
                log |-> HaltLog(params),
                outcome |-> Returned(HaltResult(params))]
  /\ UNCHANGED <<variant, account, pc, input, requests, responses, outcome,
                 startedAfter, recovery, log>>

(***************************************************************************)
(* The directory: the lifecycle API as the tests mock it.  A GET reports   *)
(* the account's status; a POST suspend makes an ACTIVE account SUSPENDED  *)
(* and answers 400 for any other account, 404 for an unknown one.          *)
(***************************************************************************)
Unknown == "<no such user>"

DirectoryStatuses == {"ACTIVE", "SUSPENDED", "DEPROVISIONED", Unknown}

DirectoryTimestamps ==
  [statusChanged |-> "2024-01-15T10:30:00.000Z", lastUpdated |-> "2024-02-01T00:00:00.000Z"]

NotFoundResponse ==
  [status |-> 404, body |-> Body("object", Undefined, NoTimestamps, "Not found")]

DirectoryGet(dir, id) ==
  IF dir[id] = Unknown THEN NotFoundResponse
  ELSE [status |-> 200, body |-> Body("object", dir[id], DirectoryTimestamps, Undefined)]

DirectoryPost(dir, id) ==
  IF dir[id] = Unknown THEN NotFoundResponse
  ELSE IF dir[id] = "ACTIVE"
       THEN [status |-> 200,
             body |-> Body("object", "SUSPENDED", DirectoryTimestamps, Undefined)]
  ELSE [status |-> 400,
        body |-> Body("object", Undefined, NoTimestamps, "Cannot suspend a user")]

DirectoryAfterPost(dir, id) ==
  IF dir[id] = "ACTIVE" THEN [dir EXCEPT ![id] = "SUSPENDED"] ELSE dir

(***************************************************************************)
(* Specifications                                                          *)
(***************************************************************************)
NoInput ==
  [userId |-> <<>>, addr |-> [address |-> Undefined, ADDRESS |-> Undefined],
   secrets |-> [mode |-> "none", token |-> <<>>]]

InitInvocations ==
  /\ variant \in Variants
  /\ pc = [p \in Procs |-> "idle"]
  /\ input = [p \in Procs |-> NoInput]
  /\ requests = [p \in Procs |-> <<>>]
  /\ responses = [p \in Procs |-> <<>>]
  /\ outcome = [p \in Procs |-> Pending]
  /\ startedAfter = [p \in Procs |-> {}]
  /\ recovery = NoCall
  /\ halted = NoCall
  /\ log = [p \in Procs |-> <<>>]

\* Spec: one invocation against a server that may answer anything
First == CHOOSE p \in Procs : \A q \in Procs : p <= q

Init ==
  /\ InitInvocations
  /\ account = [id \in UserIds |-> "ACTIVE"]

AnyGetUserA == \E resp \in Responses : GetUserRespondedA(First, resp) /\ UNCHANGED account
AnySuspendUserA ==
  \E resp \in Responses : SuspendUserRespondedA(First, resp) /\ UNCHANGED account
AnySuspendUserB ==
  \E resp \in Responses : SuspendUserRespondedB(First, resp) /\ UNCHANGED account
AnyGetUserB == \E resp \in Responses : GetUserRespondedB(First, resp) /\ UNCHANGED account

Next ==
  \/ \E in \in Inputs : InvokeA(First, in)
  \/ AnyGetUserA
  \/ AnySuspendUserA
  \/ \E in \in Inputs : InvokeB(First, in)
  \/ AnySuspendUserB
  \/ AnyGetUserB

Spec == Init /\ [][Next]_vars

\* SpecLive: as Spec, where every request issued is answered in the end
SpecLive ==
  /\ Init
  /\ [][Next]_vars
  /\ WF_vars(AnyGetUserA)
  /\ WF_vars(AnySuspendUserA)
  /\ WF_vars(AnySuspendUserB)
  /\ WF_vars(AnyGetUserB)

\* SpecDir: invocations, interleaved or one after the other, against the directory
InitDir ==
  /\ InitInvocations
  /\ account \in [UserIds -> DirectoryStatuses]

DirGetUserA(p) ==
  /\ GetUserRespondedA(p, DirectoryGet(account, input[p].userId))
  /\ UNCHANGED account

DirSuspendUserA(p) ==
  /\ SuspendUserRespondedA(p, DirectoryPost(account, input[p].userId))
  /\ account' = DirectoryAfterPost(account, input[p].userId)

DirSuspendUserB(p) ==
  /\ SuspendUserRespondedB(p, DirectoryPost(account, input[p].userId))
  /\ account' = DirectoryAfterPost(account, input[p].userId)

DirGetUserB(p) ==
  /\ GetUserRespondedB(p, DirectoryGet(account, input[p].userId))
  /\ UNCHANGED account

NextDir ==
  \/ \E p \in Procs, in \in DirInputs : InvokeA(p, in)
  \/ \E p \in Procs : DirGetUserA(p)
  \/ \E p \in Procs : DirSuspendUserA(p)
  \/ \E p \in Procs, in \in DirInputs : InvokeB(p, in)
  \/ \E p \in Procs : DirSuspendUserB(p)
  \/ \E p \in Procs : DirGetUserB(p)

SpecDir == InitDir /\ [][NextDir]_vars

\* SpecDirBodies: as SpecDir, with a directory whose 200 answer to a suspend call has
\* a user object, no JSON at all, or the JSON literal null as its body
SuspendedBodies ==
  { Body("object", "SUSPENDED", DirectoryTimestamps, Undefined), InvalidBody, NullBody }

DirectoryPostWith(dir, id, body) ==
  IF dir[id] = "ACTIVE" THEN [status |-> 200, body |-> body] ELSE DirectoryPost(dir, id)

DirSuspendUserBodyA(p) ==
  /\ \E body \in SuspendedBodies :
       SuspendUserRespondedA(p, DirectoryPostWith(account, input[p].userId, body))
  /\ account' = DirectoryAfterPost(account, input[p].userId)

DirSuspendUserBodyB(p) ==
  /\ \E body \in SuspendedBodies :
       SuspendUserRespondedB(p, DirectoryPostWith(account, input[p].userId, body))
  /\ account' = DirectoryAfterPost(account, input[p].userId)

NextDirBodies ==
  \/ \E p \in Procs, in \in DirInputs : InvokeA(p, in)
  \/ \E p \in Procs : DirGetUserA(p)
  \/ \E p \in Procs : DirSuspendUserBodyA(p)
  \/ \E p \in Procs, in \in DirInputs : InvokeB(p, in)
  \/ \E p \in Procs : DirSuspendUserBodyB(p)
  \/ \E p \in Procs : DirGetUserB(p)

SpecDirBodies == InitDir /\ [][NextDirBodies]_vars

\* SpecPaths: one invocation for any identifier over a small alphabet, up to a length
MaxIdLen == 3

PathAlphabet == {"a", "@", "/", "."}

PathUserIds == UNION { [1..n -> PathAlphabet] : n \in 1..MaxIdLen }

PathInputs ==
  [userId : PathUserIds,
   addr : {[address |-> "https://example.okta.com", ADDRESS |-> Undefined]},
   secrets : {[mode |-> "BEARER_AUTH_TOKEN", token |-> <<"tok">>]}]

PathResponses ==
  { [status |-> 200, body |-> Body("object", "ACTIVE", DirectoryTimestamps, Undefined)],
    [status |-> 200, body |-> Body("object", "SUSPENDED", DirectoryTimestamps, Undefined)],
    NotFoundResponse }

NextPaths ==
  \/ \E in \in PathInputs : InvokeA(First, in)
  \/ \E resp \in PathResponses : GetUserRespondedA(First, resp) /\ UNCHANGED account
  \/ \E resp \in PathResponses : SuspendUserRespondedA(First, resp) /\ UNCHANGED account
  \/ \E in \in PathInputs : InvokeB(First, in)
  \/ \E resp \in PathResponses : SuspendUserRespondedB(First, resp) /\ UNCHANGED account
  \/ \E resp \in PathResponses : GetUserRespondedB(First, resp) /\ UNCHANGED account

SpecPaths == Init /\ [][NextPaths]_vars

\* SpecHandlers: one invocation against the directory, and the framework calling the
\* error handler (with the error invoke threw, or any reported error) and the halt
\* handler at any point
ErrorParams ==
  [userId : UserIds,
   error : ReportedErrors \cup {outcome[p].error : p \in {q \in {First} : pc[q] = "thrown"}}]

HaltParams == [userId : UserIds \cup InvalidUserIds, reason : {"timeout", "cancelled"}]

NextHandlers ==
  \/ \E in \in DirInputs : InvokeA(First, in)
  \/ DirGetUserA(First)
  \/ DirSuspendUserA(First)
  \/ \E in \in DirInputs : InvokeB(First, in)
  \/ DirSuspendUserB(First)
  \/ DirGetUserB(First)
  \/ \E params \in ErrorParams : ErrorHandler(params)
  \/ \E params \in HaltParams : HaltHandler(params)

SpecHandlers == InitDir /\ [][NextHandlers]_vars

(***************************************************************************)
(* Observations on an invocation                                           *)
(***************************************************************************)
IsReturned(p) == outcome[p].kind = "returned"
IsThrown(p) == outcome[p].kind = "thrown"

\* the positions of the invocation's requests of one method
Issued(p, method) == {i \in DOMAIN requests[p] : requests[p][i].method = method}

\* the positions of the answered requests of one method
Answered(p, method) == Issued(p, method) \cap DOMAIN responses[p]

\* the body decodes to a JSON object
Decodes(resp) == resp.body.kind = "object"

\* a GET of this invocation was answered 2xx with an object of this status
ReadShows(p, status) ==
  \E i \in Answered(p, "GET") :
    /\ Ok(responses[p][i])
    /\ Decodes(responses[p][i])
    /\ responses[p][i].body.status = status

Contains(message, piece) == \E i \in DOMAIN message : message[i] = piece

HasStatusCode(e, code) == "statusCode" \in DOMAIN e /\ e.statusCode = code

(***************************************************************************)
(* C1: in both variants every result returned by invoke has status         *)
(* "SUSPENDED".  The check-then-suspend script returns whatever status the *)
(* body of the 2xx POST response carries.                                  *)
(***************************************************************************)
\* the status the invocation saw last: that of its last 2xx response with an object
LastStatusSeen(p) ==
  LET seen == {i \in DOMAIN responses[p] : Ok(responses[p][i]) /\ Decodes(responses[p][i])}
      last == CHOOSE i \in seen : \A j \in seen : j <= i
  IN IF seen = {} THEN Undefined ELSE responses[p][last].body.status

C1_ResultStatusIsSuspended ==
  \A p \in Procs : IsReturned(p) => outcome[p].value.status = "SUSPENDED"

\* the claim's second statement: an invocation whose last status seen is another one throws
C1_ThrowsOtherwise ==
  \A p \in Procs :
    (Ended(p) /\ responses[p] # <<>> /\ LastStatusSeen(p) # "SUSPENDED") => IsThrown(p)

(***************************************************************************)
(* C2: invoke returns suspended: true only if a GET of the same invocation *)
(* was answered with status SUSPENDED.  The check-then-suspend script      *)
(* returns success on a 2xx POST alone.                                    *)
(***************************************************************************)
C2_SuccessOnlyAfterSuspendedRead ==
  \A p \in Procs :
    (IsReturned(p) /\ outcome[p].value.suspended) => ReadShows(p, "SUSPENDED")

(***************************************************************************)
(* C3: check-then-suspend: when the GET is answered 2xx with status        *)
(* SUSPENDED, invoke returns {userId, suspended: true, address,            *)
(* suspendedAt, status: "SUSPENDED"} and the GET is its only request.      *)
(***************************************************************************)
C3_Case(p) ==
  /\ variant = CheckThenSuspend
  /\ Len(responses[p]) >= 1
  /\ Ok(responses[p][1])
  /\ Decodes(responses[p][1])
  /\ responses[p][1].body.status = "SUSPENDED"

C3_ShortCircuit ==
  \A p \in Procs :
    C3_Case(p) =>
      /\ IsReturned(p)
      /\ DOMAIN outcome[p].value = {"userId", "suspended", "address", "suspendedAt", "status"}
      /\ outcome[p].value.userId = input[p].userId
      /\ outcome[p].value.suspended = TRUE
      /\ outcome[p].value.address \in {input[p].addr.address, input[p].addr.ADDRESS}
      /\ outcome[p].value.address # Undefined
      /\ outcome[p].value.suspendedAt \in {responses[p][1].body.statusChanged, Now}
      /\ ~Falsy(outcome[p].value.suspendedAt)
      /\ outcome[p].value.status = "SUSPENDED"
      /\ Len(requests[p]) = 1
      /\ Issued(p, "POST") = {}
      /\ requests[p][1].method = "GET"

C3_Witness == \E p \in Procs : C3_Case(p) /\ IsReturned(p)

(***************************************************************************)
(* C4: idempotence of check-then-suspend against the directory: of two     *)
(* invocations for one identifier run one after the other, each that finds *)
(* the account ACTIVE or SUSPENDED returns suspended: true, and the second *)
(* returns suspended: true without issuing a POST.                         *)
(***************************************************************************)
Started(p) == pc[p] # "idle"

\* the invocations started so far ran one after the other
Sequential ==
  \A p, q \in Procs :
    (Started(p) /\ Started(q) /\ p # q) => (p \in startedAfter[q] \/ q \in startedAfter[p])

Succeeded(p) == IsReturned(p) /\ outcome[p].value.suspended = TRUE

C4_Second(p, q) ==
  /\ p \in startedAfter[q]
  /\ input[p].userId = input[q].userId
  /\ Succeeded(p)
  /\ AuthConfigured(input[q])
  /\ Ended(q)

C5_Case(p) ==
  /\ variant = CheckThenSuspend
  /\ Len(responses[p]) >= 1
  /\ Ok(responses[p][1])
  /\ Decodes(responses[p][1])
  /\ responses[p][1].body.status \notin {"ACTIVE", "SUSPENDED"}

C5_NotActiveIs400 ==
  \A p \in Procs :
    C5_Case(p) =>
      /\ IsThrown(p)
      /\ HasStatusCode(outcome[p].error, 400)
      /\ Contains(outcome[p].error.message, responses[p][1].body.status)
      /\ Issued(p, "POST") = {}

C5_Witness ==
  \E p \in Procs :
    C5_Case(p) /\ IsThrown(p) /\ responses[p][1].body.status = "DEPROVISIONED"

(***************************************************************************)
(* C6: check-then-suspend: a POST is issued only after the GET of the same *)
(* invocation was answered 2xx with a decodable body of status ACTIVE.     *)
(***************************************************************************)
C6_PostAfterActiveRead(p) ==
  (variant = CheckThenSuspend /\ Issued(p, "POST") # {}) =>
    /\ Issued(p, "POST") = {2}
    /\ requests[p][1].method = "GET"
    /\ Len(responses[p]) >= 1
    /\ Ok(responses[p][1])
    /\ Decodes(responses[p][1])
    /\ responses[p][1].body.status = "ACTIVE"

C6_Witness ==
  \E p \in Procs : variant = CheckThenSuspend /\ Issued(p, "POST") # {} /\ Ended(p)

\* a failed GET, an undecodable body, another status: the invocation ends without a POST
C6_NoPostOtherwise(p) ==
  (/\ variant = CheckThenSuspend
   /\ Len(responses[p]) >= 1
   /\ \/ ~Ok(responses[p][1])
      \/ ~Decodes(responses[p][1])
      \/ responses[p][1].body.status # "ACTIVE")
  => (Issued(p, "POST") = {} /\ Ended(p))

C6_PostOnlyAfterActiveRead ==
  \A p \in Procs : C6_PostAfterActiveRead(p) /\ C6_NoPostOtherwise(p)

(***************************************************************************)
(* C7: both variants: when the GET is answered with a non-2xx status,      *)
(* invoke throws an error whose statusCode is that status and whose        *)
(* message is "Cannot fetch information about User: HTTP <status>".        *)
(***************************************************************************)
C7_Case(p, i) == i \in Answered(p, "GET") /\ ~Ok(responses[p][i])

C7_FetchErrorKeepsStatus ==
  \A p \in Procs : \A i \in DOMAIN responses[p] :
    C7_Case(p, i) =>
      /\ IsThrown(p)
      /\ HasStatusCode(outcome[p].error, responses[p][i].status)
      /\ outcome[p].error.message =
           <<"Cannot fetch information about User: HTTP ", ToString(responses[p][i].status)>>

C7_Witness ==
  /\ variant = SuspendThenCheck
  /\ \E p \in Procs : \E i \in DOMAIN responses[p] :
       C7_Case(p, i) /\ IsThrown(p) /\ responses[p][i].status = 404

C7_WitnessA ==
  /\ variant = CheckThenSuspend
  /\ \E p \in Procs : \E i \in DOMAIN responses[p] : C7_Case(p, i) /\ IsThrown(p)

(***************************************************************************)
(* C8: both variants: when the GET is answered 2xx with a body that is not *)
(* JSON, invoke throws an error with statusCode 500 and a message starting *)
(* "Cannot parse user data"; check-then-suspend has then made one request  *)
(* (the GET), suspend-then-check two (the POST, then the GET).             *)
(***************************************************************************)
C8_Case(p, i) ==
  i \in Answered(p, "GET") /\ Ok(responses[p][i]) /\ JsonThrows(responses[p][i])

Methods(p) == [i \in DOMAIN requests[p] |-> requests[p][i].method]

C8_ParseErrorIs500 ==
  \A p \in Procs : \A i \in DOMAIN responses[p] :
    C8_Case(p, i) =>
      /\ IsThrown(p)
      /\ HasStatusCode(outcome[p].error, 500)
      /\ outcome[p].error.message[1] = "Cannot parse user data: "
      /\ variant = CheckThenSuspend => Methods(p) = <<"GET">>
      /\ variant = SuspendThenCheck => Methods(p) = <<"POST", "GET">>

C8_Witness ==
  /\ variant = SuspendThenCheck
  /\ \E p \in Procs : \E i \in DOMAIN responses[p] : C8_Case(p, i) /\ IsThrown(p)

C8_WitnessA ==
  /\ variant = CheckThenSuspend
  /\ \E p \in Procs : \E i \in DOMAIN responses[p] : C8_Case(p, i) /\ IsThrown(p)

(***************************************************************************)
(* C9: when the POST is answered with a non-2xx status the variant does    *)
(* not tolerate (any in check-then-suspend, any but 400 in                 *)
(* suspend-then-check), invoke throws an error whose statusCode is that    *)
(* status and whose message is "Failed to suspend user: <errorSummary>"    *)
(* when the body is JSON with a non-empty errorSummary, and                *)
(* "Failed to suspend user: HTTP <status>" otherwise.                      *)
(***************************************************************************)
C9_Case(p, i) ==
  /\ i \in Answered(p, "POST")
  /\ ~Ok(responses[p][i])
  /\ variant = SuspendThenCheck => responses[p][i].status # 400

C9_HasSummary(resp) ==
  resp.body.kind = "object" /\ resp.body.errorSummary \notin {Undefined, Null, ""}

C9_SuspendErrorKeepsStatus ==
  \A p \in Procs : \A i \in DOMAIN responses[p] :
    C9_Case(p, i) =>
      /\ IsThrown(p)
      /\ HasStatusCode(outcome[p].error, responses[p][i].status)
      /\ C9_HasSummary(responses[p][i]) =>
           outcome[p].error.message =
             <<"Failed to suspend user: ", responses[p][i].body.errorSummary>>
      /\ ~C9_HasSummary(responses[p][i]) =>
           outcome[p].error.message =
             <<"Failed to suspend user: HTTP ", ToString(responses[p][i].status)>>

C9_Witness ==
  /\ variant = CheckThenSuspend
  /\ \E p \in Procs : \E i \in DOMAIN responses[p] :
       /\ C9_Case(p, i)
       /\ responses[p][i].status = 400
       /\ C9_HasSummary(responses[p][i])
       /\ IsThrown(p)

C9_WitnessB ==
  /\ variant = SuspendThenCheck
  /\ \E p \in Procs : \E i \in DOMAIN responses[p] :
       C9_Case(p, i) /\ ~C9_HasSummary(responses[p][i]) /\ IsThrown(p)

(***************************************************************************)
(* C10: suspend-then-check: a 400 answer to the POST is never raised by    *)
(* itself: the GET is issued next and decides the outcome, a result when   *)
(* it shows SUSPENDED, an error with statusCode 400 whose message contains *)
(* "could not be suspended" and the status seen when it shows another.     *)
(***************************************************************************)
C10_Case(p) ==
  /\ variant = SuspendThenCheck
  /\ Len(responses[p]) >= 1
  /\ responses[p][1].status = 400

C10_Decided(p) == C10_Case(p) /\ Len(responses[p]) = 2

C10_BadRequestDeferredToRead ==
  \A p \in Procs :
    C10_Case(p) =>
      /\ Methods(p) = <<"POST", "GET">>
      /\ Len(responses[p]) = 1 => outcome[p] = Pending
      /\ Len(responses[p]) = 2 =>
           LET read == responses[p][2] IN
             /\ Ended(p)
             /\ IsThrown(p) => outcome[p].error.message[1] # "Failed to suspend user: "
             /\ IsThrown(p) => outcome[p].error.message[1] # "Failed to suspend user: HTTP "
             /\ (Ok(read) /\ Decodes(read) /\ read.body.status = "SUSPENDED") =>
                  /\ Succeeded(p)
                  /\ outcome[p].value.status = "SUSPENDED"
             /\ (Ok(read) /\ Decodes(read) /\ read.body.status # "SUSPENDED") =>
                  /\ IsThrown(p)
                  /\ HasStatusCode(outcome[p].error, 400)
                  /\ Contains(outcome[p].error.message,
                              " could not be suspended. User is currently ")
                  /\ Contains(outcome[p].error.message, read.body.status)

C10_Witness ==
  \E p \in Procs : C10_Decided(p) /\ Succeeded(p)

C10_WitnessError ==
  \E p \in Procs :
    C10_Decided(p) /\ IsThrown(p) /\ Contains(outcome[p].error.message, "DEPROVISIONED")

(***************************************************************************)
(* C11: a 2xx answer to the POST whose body does not decode.               *)
(* Check-then-suspend returns suspended: true with the status defaulted to *)
(* "SUSPENDED".  Suspend-then-check does not read that body: it issues the *)
(* GET next, and its outcome is the one the GET determines.                *)
(***************************************************************************)
C11_Case(p) ==
  \E i \in Answered(p, "POST") : Ok(responses[p][i]) /\ JsonThrows(responses[p][i])

C11_UndecodableSuspendBody ==
  \A p \in Procs :
    C11_Case(p) =>
      /\ variant = CheckThenSuspend =>
           /\ Succeeded(p)
           /\ outcome[p].value.status = "SUSPENDED"
           /\ Methods(p) = <<"GET", "POST">>
      /\ variant = SuspendThenCheck =>
           /\ Methods(p) = <<"POST", "GET">>
           /\ Len(responses[p]) = 1 => outcome[p] = Pending
           /\ Len(responses[p]) = 2 =>
                LET read == responses[p][2] IN
                  /\ Ended(p)
                  /\ ~Ok(read) => (IsThrown(p) /\ HasStatusCode(outcome[p].error, read.status))
                  /\ (Ok(read) /\ JsonThrows(read)) =>
                       (IsThrown(p) /\ HasStatusCode(outcome[p].error, 500))
                  /\ (Ok(read) /\ Decodes(read) /\ read.body.status = "SUSPENDED") =>
                       (Succeeded(p) /\ outcome[p].value.status = "SUSPENDED")
                  /\ (Ok(read) /\ Decodes(read) /\ read.body.status # "SUSPENDED") =>
                       (IsThrown(p) /\ HasStatusCode(outcome[p].error, 400))

C11_Witness ==
  \E p \in Procs : variant = CheckThenSuspend /\ C11_Case(p) /\ Succeeded(p)

C11_WitnessB ==
  \E p \in Procs :
    /\ variant = SuspendThenCheck
    /\ C11_Case(p)
    /\ Len(responses[p]) = 2
    /\ IsThrown(p)
    /\ HasStatusCode(outcome[p].error, 400)

(***************************************************************************)
(* C12: both variants: when no credential is configured, or no base        *)
(* address is given (neither params.address nor ADDRESS), invoke throws    *)
(* and has made no HTTP request.                                           *)
(***************************************************************************)
C12_NoCredential(in) == in.secrets.mode = "none" \/ in.secrets.token = <<>>

C12_NoAddress(in) == Falsy(in.addr.address) /\ Falsy(in.addr.ADDRESS)

C12_Case(p) == Started(p) /\ (C12_NoCredential(input[p]) \/ C12_NoAddress(input[p]))

C12_ThrowsBeforeAnyRequest ==
  \A p \in Procs :
    C12_Case(p) =>
      /\ IsThrown(p)
      /\ requests[p] = <<>>
      /\ responses[p] = <<>>
      /\ outcome[p].error \in {NoURLError, NoAuthError}

C12_Witness ==
  \E p \in Procs :
    /\ C12_Case(p)
    /\ ~C12_NoAddress(input[p])
    /\ IsThrown(p)
    /\ outcome[p].error = NoAuthError

C12_WitnessNoAddress ==
  \E p \in Procs : C12_Case(p) /\ C12_NoAddress(input[p]) /\ IsThrown(p)

(***************************************************************************)
(* C13: when params.userId is missing or empty, invoke throws "Invalid or  *)
(* missing userId parameter" and issues no HTTP request.  Neither script   *)
(* inspects userId: with an address and a credential the first request     *)
(* goes out, to /api/v1/users/undefined... for a missing userId.           *)
(***************************************************************************)
C13_Case(p) == Started(p) /\ input[p].userId \in InvalidUserIds

C13_InvalidUserIdRejected ==
  \A p \in Procs :
    C13_Case(p) =>
      /\ IsThrown(p)
      /\ outcome[p].error.message = <<"Invalid or missing userId parameter">>
      /\ requests[p] = <<>>

\* the claim's second half alone: no request for an invalid userId
C13_NoRequestForInvalidUserId ==
  \A p \in Procs : C13_Case(p) => requests[p] = <<>>

(***************************************************************************)
(* The recovery policy as documented: the error classes and their backoff  *)
(***************************************************************************)
RATE_LIMIT_BACKOFF_MS == 30000

SERVICE_ERROR_BACKOFF_MS == 10000

RateLimited(e) == HasStatusCode(e, 429)

ServiceUnavailable(e) == \E code \in {502, 503, 504} : HasStatusCode(e, code)

\* the error handler was called
Recovered == recovery # NoCall

(***************************************************************************)
(* C14: when the reported error has status 429, the error handler waits    *)
(* RATE_LIMIT_BACKOFF_MS (30000 ms by default) and then issues exactly one *)
(* suspend request.  The handler of both scripts sets no timer and makes   *)
(* no request: it re-throws.                                               *)
(***************************************************************************)
C14_Case == Recovered /\ RateLimited(recovery.params.error)

C14_RateLimitRetry ==
  C14_Case =>
    /\ recovery.slept = <<RATE_LIMIT_BACKOFF_MS>>
    /\ Len(recovery.requests) = 1
    /\ recovery.requests[1].method = "POST"

(***************************************************************************)
(* C15: when the reported error has status 502, 503 or 504, the error      *)
(* handler waits SERVICE_ERROR_BACKOFF_MS (10000 ms by default) and then   *)
(* issues exactly one suspend request.  The handler of both scripts sets   *)
(* no timer and makes no request: it re-throws.                            *)
(***************************************************************************)
C15_Case == Recovered /\ ServiceUnavailable(recovery.params.error)

C15_ServiceErrorRetry ==
  C15_Case =>
    /\ recovery.slept = <<SERVICE_ERROR_BACKOFF_MS>>
    /\ Len(recovery.requests) = 1
    /\ recovery.requests[1].method = "POST"

(***************************************************************************)
(* C16: when the reported error is of neither class, the error handler     *)
(* makes no request and throws an error whose message is "Unrecoverable    *)
(* error suspending user <id>: <original message>".  The handler of both   *)
(* scripts throws the error it was given, its message unchanged.           *)
(***************************************************************************)
C16_Case ==
  /\ Recovered
  /\ ~RateLimited(recovery.params.error)
  /\ ~ServiceUnavailable(recovery.params.error)

UnrecoverableMessage(userId, message) ==
  <<"Unrecoverable error suspending user ">> \o userId \o <<": ">> \o message

C16_UnrecoverableMessage ==
  C16_Case =>
    /\ recovery.requests = <<>>
    /\ recovery.outcome.kind = "thrown"
    /\ recovery.outcome.error.message =
         UnrecoverableMessage(recovery.params.userId, recovery.params.error.message)

(***************************************************************************)
(* C17: the recovery policy is the bounded machine                         *)
(* Attempting -> Success | RetryPending -> Retrying -> Success | Failed:   *)
(* a call of the error handler makes at most one suspend request, Success  *)
(* and Failed are terminal, and Retrying never goes back to RetryPending.  *)
(* (The handler of both scripts only ever goes Attempting -> Failed.)      *)
(***************************************************************************)
RecoveryState ==
  IF recovery = NoCall THEN "Attempting"
  ELSE IF recovery.outcome.kind = "returned" THEN "Success"
  ELSE IF recovery.outcome.kind = "thrown" THEN "Failed"
  ELSE IF recovery.requests = <<>> THEN "RetryPending"
  ELSE "Retrying"

RecoveryTransitions ==
  { <<"Attempting", "Success">>, <<"Attempting", "RetryPending">>,
    <<"Attempting", "Failed">>, <<"RetryPending", "Retrying">>,
    <<"Retrying", "Success">>, <<"Retrying", "Failed">> }

C17_AtMostOneRetry ==
  Recovered =>
    /\ Len(recovery.requests) <= 1
    /\ Len(recovery.slept) <= 1

C17_Step ==
  /\ RecoveryState' # RecoveryState => <<RecoveryState, RecoveryState'>> \in RecoveryTransitions
  /\ RecoveryState \in {"Success", "Failed"} => recovery' = recovery

C17_BoundedRecovery == [](C17_AtMostOneRetry) /\ [][C17_Step]_vars

C17_Witness == Recovered /\ RecoveryState = "Failed" /\ Ended(First)

C18_WitnessFromInvoke ==
  /\ Recovered
  /\ IsThrown(First)
  /\ recovery.params.error = outcome[First].error
  /\ recovery.params.error \notin ReportedErrors

(***************************************************************************)
(* C19: the halt handler returns {userId, reason, haltedAt,                *)
(* cleanupCompleted: true}, with userId "unknown" when it is missing or    *)
(* empty; it does not throw, makes no HTTP request, and leaves the account *)
(* and an invocation in flight as they were.                               *)
(***************************************************************************)
Halted == halted # NoCall

C19_Result ==
  Halted =>
    /\ halted.outcome.kind = "returned"
    /\ DOMAIN halted.outcome.value = {"userId", "reason", "haltedAt", "cleanupCompleted"}
    /\ halted.outcome.value.userId =
         (IF halted.params.userId = <<>> \/ halted.params.userId = <<Undefined>>
          THEN <<"unknown">> ELSE halted.params.userId)
    /\ halted.outcome.value.reason = halted.params.reason
    /\ halted.outcome.value.haltedAt = Now
    /\ halted.outcome.value.cleanupCompleted = TRUE
    /\ halted.requests = <<>>

\* the step that calls halt changes nothing of the account or the invocations
C19_Frame ==
  halted' # halted =>
    UNCHANGED <<account, pc, input, requests, responses, outcome, startedAfter, recovery,
                log>>

C19_HaltIsInert == [](C19_Result) /\ [][C19_Frame]_vars

C19_Witness ==
  /\ Halted
  /\ halted.params.userId \in InvalidUserIds
  /\ halted.outcome.value.userId = <<"unknown">>

\* halt called while the invocation awaits the response to its second request
C19_WitnessInFlight ==
  /\ Halted
  /\ halted.params.userId \in UserIds
  /\ outcome[First] = Pending
  /\ Len(requests[First]) = 2

(***************************************************************************)
(* C20: the Authorization header of every request.  With BEARER_AUTH_TOKEN *)
(* set to t (resolved as "Bearer t") it is "SSWS t", or t itself when t    *)
(* already starts with "SSWS "; with basic or OAuth2 credentials it is the *)
(* resolved header, unchanged.                                             *)
(***************************************************************************)
C20_Expected(secrets) ==
  CASE secrets.mode = "BEARER_AUTH_TOKEN" ->
         IF secrets.token[1] = "SSWS " THEN secrets.token ELSE <<"SSWS ">> \o secrets.token
    [] secrets.mode = "BASIC" -> <<"Basic ">> \o secrets.token
    [] secrets.mode = "OAUTH2" -> <<"Bearer ">> \o secrets.token

C20_AuthorizationRewrite ==
  \A p \in Procs : \A i \in DOMAIN requests[p] :
    requests[p][i].headers.Authorization = C20_Expected(input[p].secrets)

C20_Witness ==
  \E p \in Procs :
    /\ input[p].secrets = [mode |-> "BEARER_AUTH_TOKEN", token |-> <<"tok">>]
    /\ Len(requests[p]) = 2
    /\ \A i \in DOMAIN requests[p] : requests[p][i].headers.Authorization = <<"SSWS ", "tok">>

C20_WitnessPrefixed ==
  \E p \in Procs :
    /\ input[p].secrets = [mode |-> "BEARER_AUTH_TOKEN", token |-> <<"SSWS ", "tok">>]
    /\ requests[p] # <<>>
    /\ requests[p][1].headers.Authorization = <<"SSWS ", "tok">>

C20_WitnessOAuth2 ==
  \E p \in Procs :
    /\ input[p].secrets.mode = "OAUTH2"
    /\ requests[p] # <<>>
    /\ requests[p][1].headers.Authorization = <<"Bearer ", "access">>

(***************************************************************************)
(* C21: for every identifier, those with "/", "@" or ".." in them          *)
(* included, the identifier is one segment of the GET path                 *)
(* /api/v1/users/<id> and of the POST path                                 *)
(* /api/v1/users/<id>/lifecycle/suspend: no "/" and no "@" of it is left   *)
(* in the path, and the separators are where they are for a plain one.     *)
(***************************************************************************)
Separators(path) == {i \in DOMAIN path : path[i] = "/"}

\* the part of a request's path where the identifier goes
IdSegment(req, userId) == SubSeq(req.path, 8, 7 + Len(userId))

C21_OneSegment(req, userId) ==
  LET n == Len(userId) IN
    /\ SubSeq(req.path, 1, 7) = <<"/", "api", "/", "v1", "/", "users", "/">>
    /\ \A i \in DOMAIN req.path : req.path[i] # "@"
    /\ req.method = "GET" =>
         /\ Len(req.path) = 7 + n
         /\ Separators(req.path) = {1, 3, 5, 7}
    /\ req.method = "POST" =>
         /\ Len(req.path) = 11 + n
         /\ Separators(req.path) = {1, 3, 5, 7, 8 + n, 10 + n}
         /\ SubSeq(req.path, 8 + n, 11 + n) = <<"/", "lifecycle", "/", "suspend">>

C21_IdentifierIsOneSegment ==
  \A p \in Procs : \A i \in DOMAIN requests[p] :
    C21_OneSegment(requests[p][i], input[p].userId)

C21_Witness ==
  \E p \in Procs :
    /\ input[p].userId = <<"/", ".", ".">>
    /\ Len(requests[p]) = 2
    /\ \E i \in DOMAIN requests[p] :
         /\ requests[p][i].method = "POST"
         /\ IdSegment(requests[p][i], input[p].userId) = <<"%2F", ".", ".">>

C21_WitnessAt ==
  \E p \in Procs :
    /\ input[p].userId = <<"a", "@", "a">>
    /\ requests[p] # <<>>
    /\ IdSegment(requests[p][1], input[p].userId) = <<"a", "%40", "a">>

(***************************************************************************)
(* C22: every reserved character of the identifier, "." included, is       *)
(* percent-encoded in the path, so that for the identifiers "." and ".."   *)
(* the identifier segment is never the dot-segment "." or "..".            *)
(* encodeURIComponent leaves "." as it is: both scripts build              *)
(* /api/v1/users/.. for the identifier "..".                               *)
(***************************************************************************)
DotSegments == { <<".">>, <<".", ".">> }

C22_NoDotSegment ==
  \A p \in Procs : \A i \in DOMAIN requests[p] :
    IdSegment(requests[p][i], input[p].userId) \notin DotSegments

\* the claim's first half: no "." of the identifier is left in the path
C22_EveryDotEncoded ==
  \A p \in Procs : \A i \in DOMAIN requests[p] :
    \A j \in DOMAIN requests[p][i].path : requests[p][i].path[j] # "."

(***************************************************************************)
(* C23: no line written to the log by invoke, error or halt contains the   *)
(* Authorization header value or a value of context.secrets, and a run     *)
(* that differs only in the credential writes the same lines.              *)
(***************************************************************************)
Pieces(str) == {str[i] : i \in DOMAIN str}

\* the secret's value, the header resolved from it and the header sent
CredentialPieces(in) ==
  Pieces(in.secrets.token) \cup Pieces(getAuthorizationHeader(in)) \cup Pieces(authHeader(in))

\* every line written so far, by the invocations and by the handlers
LogLines ==
  UNION {Pieces(log[p]) : p \in Procs}
    \cup (IF Recovered THEN Pieces(recovery.log) ELSE {})
    \cup (IF Halted THEN Pieces(halted.log) ELSE {})

\* what an invocation with this input writes when it gets these responses
InvokeLog(v, in, resps) ==
  StartLog(in)
    \o (IF Len(resps) < 1 THEN <<>>
        ELSE IF v = CheckThenSuspend THEN GetUserLogA(in, resps[1])
        ELSE SuspendUserLogB(in, resps[1]))
    \o (IF Len(resps) < 2 THEN <<>>
        ELSE IF v = CheckThenSuspend THEN SuspendUserLogA(in, resps[2])
        ELSE GetUserLogB(in, resps[2]))

C23_NoCredentialInLog ==
  \A p \in Procs : \A line \in LogLines : Pieces(line) \cap CredentialPieces(input[p]) = {}

C23_SameLogForAnyCredential ==
  \A p \in Procs :
    (Started(p) /\ AuthConfigured(input[p])) =>
      \A s \in Secrets :
        s.mode # "none" =>
          InvokeLog(variant, [input[p] EXCEPT !.secrets = s], responses[p]) = log[p]

C23_LogsHideCredentials == C23_NoCredentialInLog /\ C23_SameLogForAnyCredential

C23_Witness ==
  /\ Recovered
  /\ Halted
  /\ IsThrown(First)
  /\ recovery.params.error = outcome[First].error
  /\ input[First].secrets.token = <<"tok">>
  /\ Len(log[First]) >= 2

C23_WitnessSuccess ==
  /\ Succeeded(First)
  /\ input[First].secrets.token = <<"tok">>
  /\ Len(log[First]) >= 2

(***************************************************************************)
(* C24: every GET goes to <base>/api/v1/users/<encoded id> with exactly    *)
(* the headers Authorization and Accept: application/json; every POST to   *)
(* <base>/api/v1/users/<encoded id>/lifecycle/suspend with Authorization,  *)
(* Accept and Content-Type: application/json and no body; the requests of  *)
(* one invocation share base address, encoded identifier, Authorization.   *)
(***************************************************************************)
UsersPath == <<"/", "api", "/", "v1", "/", "users", "/">>

C24_Shape(req, in) ==
  /\ DOMAIN req = {"method", "base", "path", "headers"}
  /\ req.base = (IF Falsy(in.addr.address) THEN in.addr.ADDRESS ELSE in.addr.address)
  /\ req.headers.Accept = "application/json"
  /\ req.headers.Authorization # <<>>
  /\ req.method \in {"GET", "POST"}
  /\ req.method = "GET" =>
       /\ DOMAIN req.headers = {"Authorization", "Accept"}
       /\ req.path = UsersPath \o IdSegment(req, in.userId)
       /\ Len(req.path) = 7 + Len(in.userId)
  /\ req.method = "POST" =>
       /\ DOMAIN req.headers = {"Authorization", "Accept", "ContentType"}
       /\ req.headers.ContentType = "application/json"
       /\ req.path = UsersPath \o IdSegment(req, in.userId)
                       \o <<"/", "lifecycle", "/", "suspend">>
       /\ Len(req.path) = 11 + Len(in.userId)

C24_WitnessB ==
  \E p \in Procs :
    /\ Len(requests[p]) = 2
    /\ requests[p][1].method = "POST"
    /\ requests[p][2].method = "GET"

(***************************************************************************)
(* C25: an invocation that gets past the resolution of the base address    *)
(* and the credential issues at least one and at most two requests, at     *)
(* most one GET and at most one POST, whatever the responses.              *)
(***************************************************************************)
C25_Case(p) ==
  Started(p) /\ ~C12_NoCredential(input[p]) /\ ~C12_NoAddress(input[p])

C25_OneOrTwoRequests ==
  \A p \in Procs :
    C25_Case(p) =>
      /\ Len(requests[p]) \in {1, 2}
      /\ Cardinality(Issued(p, "GET")) <= 1
      /\ Cardinality(Issued(p, "POST")) <= 1
      /\ Issued(p, "GET") \cup Issued(p, "POST") = DOMAIN requests[p]

C25_Witness ==
  \E p \in Procs : C25_Case(p) /\ Ended(p) /\ Len(requests[p]) = 2

C25_WitnessOne ==
  \E p \in Procs : C25_Case(p) /\ Ended(p) /\ Len(requests[p]) = 1

(***************************************************************************)
(* C26: suspend-then-check: the POST is the first request and is issued    *)
(* whatever the account's state; the GET is issued after it exactly when   *)
(* the POST was answered 2xx or 400, and never before it.                  *)
(***************************************************************************)
C26_PostThenRead ==
  \A p \in Procs :
    (variant = SuspendThenCheck /\ C25_Case(p)) =>
      /\ requests[p] # <<>>
      /\ requests[p][1].method = "POST"
      /\ Issued(p, "GET") \subseteq {2}
      /\ Issued(p, "GET") # {} <=>
           /\ Len(responses[p]) >= 1
           /\ \/ responses[p][1].status \in 200..299
              \/ responses[p][1].status = 400

C26_Witness ==
  \E p \in Procs :
    /\ variant = SuspendThenCheck
    /\ Len(responses[p]) >= 1
    /\ responses[p][1].status = 400
    /\ Issued(p, "GET") = {2}

C26_WitnessNoRead ==
  \E p \in Procs :
    /\ variant = SuspendThenCheck
    /\ Len(responses[p]) = 1
    /\ responses[p][1].status = 429
    /\ Issued(p, "GET") = {}
    /\ IsThrown(p)

(***************************************************************************)
(* C27: every result of invoke has a defined, non-null suspendedAt; when   *)
(* the result rests on a read of the account it is that read's             *)
(* statusChanged, else its lastUpdated, else the current time.             *)
(* Suspend-then-check returns statusChanged || lastUpdated with no further *)
(* fallback; check-then-suspend never looks at lastUpdated.                *)
(***************************************************************************)
C27_SuspendedAtDefined ==
  \A p \in Procs : IsReturned(p) => ~Falsy(outcome[p].value.suspendedAt)

\* the read the result rests on: the last 2xx GET answer with an object of status SUSPENDED
C27_Read(p) ==
  LET reads == {i \in Answered(p, "GET") :
                  /\ Ok(responses[p][i])
                  /\ Decodes(responses[p][i])
                  /\ responses[p][i].body.status = "SUSPENDED"}
  IN responses[p][CHOOSE i \in reads : \A j \in reads : j <= i].body

\* the claim's chain of fallbacks
C27_TimestampChain ==
  \A p \in Procs :
    (IsReturned(p) /\ ReadShows(p, "SUSPENDED")) =>
      outcome[p].value.suspendedAt =
        (IF ~Falsy(C27_Read(p).statusChanged) THEN C27_Read(p).statusChanged
         ELSE IF ~Falsy(C27_Read(p).lastUpdated) THEN C27_Read(p).lastUpdated
         ELSE Now)

(***************************************************************************)
(* C28: every request of invoke, the POST and the GET alike, carries a     *)
(* User-Agent header (SGNL_USER_AGENT) and Content-Type: application/json  *)
(* besides Authorization and Accept.  Neither script sets a User-Agent,    *)
(* and the GET has no Content-Type.                                        *)
(***************************************************************************)
C28_UserAgentSent ==
  \A p \in Procs : \A i \in DOMAIN requests[p] :
    /\ "UserAgent" \in DOMAIN requests[p][i].headers
    /\ "ContentType" \in DOMAIN requests[p][i].headers

\* the claim for the POST alone, and for its Content-Type alone: this much holds
C28_PostHasContentType ==
  \A p \in Procs : \A i \in Issued(p, "POST") :
    "ContentType" \in DOMAIN requests[p][i].headers

(***************************************************************************)
(* C29: nothing about an account is kept from one invocation to the next:  *)
(* the outcome of an invocation depends only on its own input and on the   *)
(* responses to its own requests, and a result is returned only after a    *)
(* GET of the same invocation showed the account.                          *)
(***************************************************************************)
C29_SameRun(p, q) ==
  /\ Ended(p)
  /\ Ended(q)
  /\ input[p] = input[q]
  /\ responses[p] = responses[q]

C29_OwnRead(p) ==
  \E i \in Answered(p, "GET") :
    /\ Ok(responses[p][i])
    /\ Decodes(responses[p][i])
    /\ responses[p][i].body.status \in {"ACTIVE", "SUSPENDED"}

C29_NothingKept ==
  /\ \A p, q \in Procs :
       C29_SameRun(p, q) => (outcome[p] = outcome[q] /\ requests[p] = requests[q])
  /\ \A p \in Procs : IsReturned(p) => C29_OwnRead(p)

\* a second invocation, run after a successful one for the same user, reads the account again
C29_Witness ==
  \E p, q \in Procs :
    /\ p \in startedAfter[q]
    /\ Succeeded(p)
    /\ input[p].userId = input[q].userId
    /\ Succeeded(q)
    /\ C29_OwnRead(q)

C29_WitnessSameRun ==
  \E p, q \in Procs :
    p # q /\ C29_SameRun(p, q) /\ Len(responses[p]) = 2 /\ Succeeded(p)

(***************************************************************************)
(* C30: check-then-suspend, against a directory in which only a 2xx POST   *)
(* changes an account: when invoke throws, its own POST was not answered   *)
(* 2xx, so the invocation has not changed the account.  With the JSON      *)
(* literal null as the body of the 200 answer, the script throws a         *)
(* TypeError after the account was suspended.                              *)
(***************************************************************************)
C30_OwnSuspendDone(p) == \E i \in Answered(p, "POST") : Ok(responses[p][i])

C30_NoErrorAfterSuspend ==
  \A p \in Procs :
    (variant = CheckThenSuspend /\ IsThrown(p)) => ~C30_OwnSuspendDone(p)

\* the same statement where the 200 answer carries a user object or no JSON
C30_NoErrorAfterSuspendUnlessNull ==
  \A p \in Procs :
    (/\ variant = CheckThenSuspend
     /\ IsThrown(p)
     /\ \A i \in Answered(p, "POST") : responses[p][i].body.kind # "null")
    => ~C30_OwnSuspendDone(p)

(***************************************************************************)
(* C31: suspend-then-check: two invocations for one initially ACTIVE       *)
(* identifier, their requests interleaved in any order against the         *)
(* directory (POST answered 2xx for an ACTIVE account, which becomes       *)
(* SUSPENDED, and 400 for a SUSPENDED one), both return suspended: true    *)
(* and the account ends SUSPENDED.                                         *)
(***************************************************************************)
\* both invocations ran to their end for one identifier, and the account was ACTIVE
\* at first: one of their POSTs was answered 2xx, which the directory does for an
\* ACTIVE account only, and nothing makes an account ACTIVE
BothEndedOnActive(p, q) ==
  /\ p # q
  /\ Ended(p)
  /\ Ended(q)
  /\ AuthConfigured(input[p])
  /\ AuthConfigured(input[q])
  /\ input[p].userId = input[q].userId
  /\ \E r \in {p, q} : \E i \in Answered(r, "POST") : Ok(responses[r][i])

\* the requests of q began before p ended and the other way round
Interleaved(p, q) == p \notin startedAfter[q] /\ q \notin startedAfter[p]

C31_BothSucceed ==
  \A p, q \in Procs :
    (variant = SuspendThenCheck /\ BothEndedOnActive(p, q)) =>
      /\ Succeeded(p)
      /\ Succeeded(q)
      /\ outcome[p].value.status = "SUSPENDED"
      /\ outcome[q].value.status = "SUSPENDED"
      /\ account[input[p].userId] = "SUSPENDED"

C31_Witness ==
  \E p, q \in Procs :
    /\ variant = SuspendThenCheck
    /\ BothEndedOnActive(p, q)
    /\ Interleaved(p, q)
    /\ \E i \in Answered(q, "POST") : responses[q][i].status = 400
    /\ Succeeded(p)
    /\ Succeeded(q)

(***************************************************************************)
(* C32: check-then-suspend: two invocations for one initially ACTIVE       *)
(* identifier, their requests interleaved in any order against the same    *)
(* directory, each return suspended: true.  When both read ACTIVE before   *)
(* either suspends, the second POST is answered 400 and that invocation    *)
(* throws.                                                                 *)
(***************************************************************************)
C32_BothSucceed ==
  \A p, q \in Procs :
    (variant = CheckThenSuspend /\ BothEndedOnActive(p, q)) =>
      (Succeeded(p) /\ Succeeded(q))

\* the account itself does end SUSPENDED
C32_AccountEndsSuspended ==
  \A p, q \in Procs :
    (variant = CheckThenSuspend /\ BothEndedOnActive(p, q)) =>
      account[input[p].userId] = "SUSPENDED"

\* one after the other, both succeed
C32_BothSucceedInSequence ==
  \A p, q \in Procs :
    (variant = CheckThenSuspend /\ BothEndedOnActive(p, q) /\ ~Interleaved(p, q)) =>
      (Succeeded(p) /\ Succeeded(q))

(***************************************************************************)
(* C33: the two variants agree on a single invocation against the          *)
(* directory: for an ACTIVE or a SUSPENDED account both return a result    *)
(* with status SUSPENDED, for an account of another status both throw with *)
(* statusCode 400, for an unknown account both throw with statusCode 404,  *)
(* and both leave the account in the same state.  Each variant is held to  *)
(* the one table of outcomes, by the status the account had at first.      *)
(***************************************************************************)
\* the status of the invocation's account before it: the invocation alone acts on the
\* directory, and changed the account exactly when its POST was answered 2xx
C33_InitialStatus(p) ==
  IF \E i \in Answered(p, "POST") : Ok(responses[p][i])
  THEN "ACTIVE"
  ELSE account[input[p].userId]

C33_FinalStatus(initial) == IF initial = "ACTIVE" THEN "SUSPENDED" ELSE initial

C33_Case(p) == Ended(p) /\ AuthConfigured(input[p])

C33_SameOutcome ==
  \A p \in {First} :
    C33_Case(p) =>
      LET initial == C33_InitialStatus(p) IN
        /\ initial \in {"ACTIVE", "SUSPENDED"} =>
             (Succeeded(p) /\ outcome[p].value.status = "SUSPENDED")
        /\ initial = Unknown => (IsThrown(p) /\ HasStatusCode(outcome[p].error, 404))
        /\ initial \notin {"ACTIVE", "SUSPENDED", Unknown} =>
             (IsThrown(p) /\ HasStatusCode(outcome[p].error, 400))
        /\ account[input[p].userId] = C33_FinalStatus(initial)

C33_Witness ==
  /\ variant = CheckThenSuspend
  /\ C33_Case(First)
  /\ C33_InitialStatus(First) = "ACTIVE"
  /\ Succeeded(First)

C33_WitnessB ==
  /\ variant = SuspendThenCheck
  /\ C33_Case(First)
  /\ C33_InitialStatus(First) = "ACTIVE"
  /\ Succeeded(First)

C33_WitnessUnknownA ==
  /\ variant = CheckThenSuspend
  /\ C33_Case(First)
  /\ C33_InitialStatus(First) = Unknown
  /\ IsThrown(First)

C33_WitnessUnknownB ==
  /\ variant = SuspendThenCheck
  /\ C33_Case(First)
  /\ C33_InitialStatus(First) = Unknown
  /\ IsThrown(First)

C33_WitnessOtherA ==
  /\ variant = CheckThenSuspend
  /\ C33_Case(First)
  /\ C33_InitialStatus(First) = "DEPROVISIONED"
  /\ IsThrown(First)

C33_WitnessOtherB ==
  /\ variant = SuspendThenCheck
  /\ C33_Case(First)
  /\ C33_InitialStatus(First) = "DEPROVISIONED"
  /\ IsThrown(First)

(***************************************************************************)
(* C34: provided every request issued gets a response, every invocation    *)
(* ends, with a result or with an error, in either variant; it has no loop *)
(* or waiting step of its own: until it ends it waits for the answer to    *)
(* its latest request, the first or the second, and for nothing else.      *)
(***************************************************************************)
C34_OnlyAwaitsResponses ==
  \A p \in Procs :
    (Started(p) /\ ~Ended(p)) =>
      /\ pc[p] \in {"getUser", "suspendUser"}
      /\ Len(requests[p]) = Len(responses[p]) + 1
      /\ Len(requests[p]) <= 2

C34_Terminates ==
  /\ [](C34_OnlyAwaitsResponses)
  /\ \A p \in Procs : Started(p) ~> Ended(p)

C34_Witness ==
  \E p \in Procs : Ended(p) /\ Len(responses[p]) = 2 /\ IsReturned(p)

C34_WitnessThrown ==
  \E p \in Procs : Ended(p) /\ Len(responses[p]) = 2 /\ IsThrown(p)

====
